---- MODULE Spec2Model ----
(***************************************************************************)
(* Progressive deployment orchestrator of                                  *)
(* src/containers/deployment/deployment-automation.py                      *)
(* (class DeploymentAutomation): the plan registry, the four strategy      *)
(* executors, the metric validation and the rollback.                      *)
(*                                                                         *)
(* Plans are heap objects: `plans` is the heap (index = object identity),  *)
(* active_deployments maps a plan_id to an object, deployment_history is   *)
(* a list of objects, and each running execute_deployment coroutine holds  *)
(* a reference to its object.  A coroutine is one entry of `run`; its pc   *)
(* names the awaited call it is suspended at.  One action is the awaited   *)
(* call completing plus the synchronous code up to the next await.         *)
(*                                                                         *)
(* progress_percentage is kept in tenths of a percent (the code computes   *)
(* 20 + traffic * 0.7 in floating point).                                  *)
(***************************************************************************)
EXTENDS Integers, Sequences, FiniteSets, TLC

VARIABLES
    clock,                \* int(time.time()), seconds
    config,               \* self.config["deployment_strategies"]
    plans,                \* heap of DeploymentPlan objects
    active_deployments,   \* plan_id -> plan object
    deployment_history,   \* list of plan objects
    run,                  \* the execute_deployment coroutines
    ret,                  \* outcome of the call that made the last step
    metrics,              \* scratch state of the metrics-validation harness
    feature_flags,        \* self.feature_flags: name -> FeatureFlag
    hash_seed,            \* the process's string-hash randomisation
    update_call           \* an update_feature_flag coroutine in flight

\* The feature-flag side of the object
flag_vars == <<feature_flags, hash_seed, update_call>>

vars == <<clock, config, plans, active_deployments, deployment_history,
          run, ret, metrics, feature_flags, hash_seed, update_call>>

----------------------------------------------------------------------------
(* Bounds *)

MaxClock == 1
MaxPlans == 1
MaxRegistryPlans == 2
MaxServices == 3
MaxCycles == 5

Tasks == {"t1", "t2"}

----------------------------------------------------------------------------
(* Enums and the plan record *)

DeploymentStrategy == {"rolling_update", "blue_green", "canary", "immediate"}

DeploymentStatus ==
    {"PENDING", "IN_PROGRESS", "VALIDATING", "COMPLETED", "FAILED", "ROLLED_BACK"}

EnvironmentType == {"development", "staging", "production"}

Omitted == "<omitted>"
NoError == "<None>"

DeploymentPlan(id, strategy, n, rof) ==
    [plan_id |-> id, strategy |-> strategy, services |-> n,
     rollback_on_failure |-> rof, status |-> "PENDING",
     progress_percentage |-> 0, error_message |-> NoError]

\* progress values are tenths of a percent
Pct(x) == 10 * x

----------------------------------------------------------------------------
(* Configuration, _load_config: the defaults, or what the YAML file gives *)

DefaultCanary == [initial_traffic_percentage |-> 10, traffic_increment |-> 20]

\* A ramp of one cycle
ShortCanary == [initial_traffic_percentage |-> 50, traffic_increment |-> 60]

CanaryConfigs ==
    { DefaultCanary, ShortCanary,
      [initial_traffic_percentage |-> 100, traffic_increment |-> 20],
      [initial_traffic_percentage |-> 110, traffic_increment |-> 20],
      [initial_traffic_percentage |-> 30,  traffic_increment |-> 0],
      [initial_traffic_percentage |-> 10,  traffic_increment |-> -20] }

Configs ==
    { [canary |-> c, auto_promotion |-> FALSE] : c \in CanaryConfigs }
        \cup { [canary |-> DefaultCanary, auto_promotion |-> TRUE] }

----------------------------------------------------------------------------
(* _validate_canary_metrics: the two Prometheus queries *)

\* rollback.rollback_triggers of the default configuration
ErrorRateThreshold == 5
ResponseTimeThreshold == 3

\* What one session.get(...) / response.json() pair can produce: an
\* exception (connection error, bad JSON), a timeout (asyncio.TimeoutError),
\* a body whose "status" is not "success", a successful body with an empty
\* "result", or a successful body with one sample.
Failed(kind) == [kind |-> kind, value |-> 0]
Sample(v) == [kind |-> "sample", value |-> v]

ErrorRateResponses ==
    {Failed("raise"), Failed("timeout"), Failed("error"), Failed("empty")}
        \cup {Sample(v) : v \in {0, 5, 6, 8}}

ResponseTimeResponses ==
    {Failed("raise"), Failed("timeout"), Failed("error"), Failed("empty")}
        \cup {Sample(v) : v \in {1, 3, 4}}

Raises(r) == r.kind \in {"raise", "timeout"}

\* data["status"] == "success" and data["data"]["result"]
HasSample(r) == r.kind = "sample"

ValidateCanaryMetrics(er, rt) ==
    IF Raises(er) THEN FALSE                                    \* except: return False
    ELSE IF HasSample(er) /\ er.value > ErrorRateThreshold THEN FALSE
    ELSE IF Raises(rt) THEN FALSE
    ELSE IF HasSample(rt) /\ rt.value > ResponseTimeThreshold THEN FALSE
    ELSE TRUE

\* Every value the call can return to the ramp loop
ValidationResults ==
    { ValidateCanaryMetrics(er, rt) :
        er \in ErrorRateResponses, rt \in ResponseTimeResponses }

\* A harness that calls _validate_canary_metrics once on every pair of
\* provider responses.
MetricsInit ==
    metrics \in { [pc |-> "call", error_rate |-> er, response_time |-> rt,
                   result |-> FALSE] :
                  er \in ErrorRateResponses, rt \in ResponseTimeResponses }

MetricsValidate ==
    /\ metrics.pc = "call"
    /\ metrics' = [metrics EXCEPT
                     !.pc = "returned",
                     !.result = ValidateCanaryMetrics(metrics.error_rate,
                                                      metrics.response_time)]
    /\ UNCHANGED <<clock, config, plans, active_deployments,
                   deployment_history, run, ret, flag_vars>>

----------------------------------------------------------------------------
(* Feature flags: _load_feature_flags, is_feature_enabled,                 *)
(* update_feature_flag                                                     *)

\* An argument left at its default None
None == "<None>"

FlagNames ==
    {"enhanced_video_processing", "ai_inference_v2", "real_time_collaboration"}

\* The dataclass FeatureFlag; the lists are only tested for membership
FeatureFlag(name, enabled, rollout, segments, environments, conditions) ==
    [name |-> name, enabled |-> enabled, rollout_percentage |-> rollout,
     target_segments |-> segments, environments |-> environments,
     conditions |-> conditions]

\* _load_feature_flags
LoadFeatureFlags ==
    [n \in FlagNames |->
        CASE n = "enhanced_video_processing" ->
                 FeatureFlag(n, FALSE, 0, {"beta_users"}, {"staging"}, "{}")
          [] n = "ai_inference_v2" ->
                 FeatureFlag(n, TRUE, 25, {"premium_users"},
                             {"staging", "production"}, "{user_tier: premium}")
          [] n = "real_time_collaboration" ->
                 FeatureFlag(n, TRUE, 100, {"all"}, {"production"}, "{}")]

\* Python salts str hashes with a value drawn when the interpreter starts:
\* hash(user_id) is fixed within a process and differs between processes.
HashSeeds == {1, 2}

UserIds == {"u1", "u2"}

\* hash(user_id), a signed machine integer
Hash(seed, user_id) ==
    CASE seed = 1 /\ user_id = "u1" -> 7310
      [] seed = 1 /\ user_id = "u2" -> -8940
      [] seed = 2 /\ user_id = "u1" -> -1240
      [] seed = 2 /\ user_id = "u2" -> 5510

\* user_hash = hash(user_id) % 100, in 0..99 (Python's % takes the sign of
\* the divisor)
Bucket(seed, user_id) == Hash(seed, user_id) % 100

\* Values random.randint(0, 99) returns to an anonymous caller
RandomDraws == {0, 25, 50, 99}

\* An evaluation without the environment check (what C19 rules out)
is_feature_enabled_NoEnvironmentGate(flags, seed, feature_name, user_id, user_segment, environment, draw) ==
    IF feature_name \notin DOMAIN flags THEN FALSE
    ELSE LET flag == flags[feature_name] IN
         IF /\ user_segment # None
            /\ user_segment \notin flag.target_segments
            /\ "all" \notin flag.target_segments
         THEN FALSE
         ELSE IF flag.rollout_percentage < 100
         THEN IF user_id # None
              THEN Bucket(seed, user_id) < flag.rollout_percentage
              ELSE draw < flag.rollout_percentage
         ELSE flag.enabled

\* is_feature_enabled(feature_name, user_id, user_segment, environment) on
\* the flag table `flags`; draw is what random.randint returns if asked
is_feature_enabled(flags, seed, feature_name, user_id, user_segment, environment, draw) ==
    IF feature_name \notin DOMAIN flags THEN FALSE
    ELSE LET flag == flags[feature_name] IN
         IF environment # None /\ environment \notin flag.environments
         THEN FALSE
         ELSE IF /\ user_segment # None
                 /\ user_segment \notin flag.target_segments
                 /\ "all" \notin flag.target_segments
         THEN FALSE
         ELSE IF flag.rollout_percentage < 100
         THEN IF user_id # None
              THEN Bucket(seed, user_id) < flag.rollout_percentage
              ELSE draw < flag.rollout_percentage
         ELSE flag.enabled

\* The fields update_feature_flag looks for in its keyword arguments
UpdatableFields ==
    {"enabled", "rollout_percentage", "target_segments", "environments"}

\* The flag after the four `if "..." in kwargs:` assignments
UpdatedFlag(flag, kwargs) ==
    [f \in DOMAIN flag |->
        IF f \in UpdatableFields \cap DOMAIN kwargs THEN kwargs[f] ELSE flag[f]]

\* A variant that creates the flag it does not find, disabled, before the
\* assignments
update_feature_flag_Upsert(flags, feature_name, kwargs) ==
    IF feature_name \notin DOMAIN flags
    THEN (feature_name :>
              UpdatedFlag(FeatureFlag(feature_name, FALSE, 0, {}, {}, "{}"),
                          kwargs)) @@ flags
    ELSE [flags EXCEPT ![feature_name] = UpdatedFlag(@, kwargs)]

\* update_feature_flag(feature_name, **kwargs) on the flag table
update_feature_flag(flags, feature_name, kwargs) ==
    IF feature_name \notin DOMAIN flags THEN flags
    ELSE [flags EXCEPT ![feature_name] = UpdatedFlag(@, kwargs)]

\* The calls made here.  An argument is None or a non-empty string (the
\* code tests `if environment and ...`, `if user_segment and ...`,
\* `if user_id:`, so it takes an empty string for an argument not given).
QueryNames == FlagNames \cup {"no_such_flag"}
QueryUsers == UserIds \cup {None}
QuerySegments == {None, "premium_users"}
QueryEnvironments == {None, "production"}

UpdateNames == {"enhanced_video_processing", "ai_inference_v2", "no_such_flag"}

\* The keyword arguments of the calls; the last one carries a key the
\* function does not look for
UpdateKwargs ==
    { [rollout_percentage |-> 50], [rollout_percentage |-> 100],
      [rollout_percentage |-> 150], [enabled |-> FALSE],
      [enabled |-> TRUE, rollout_percentage |-> 0],
      [target_segments |-> {"all"}, environments |-> {"production"}],
      [enabled |-> TRUE, conditions |-> "{user_tier: free}"] }

\* Everything but the flag table, the hash seed and ret
FlagFrame ==
    UNCHANGED <<clock, config, plans, active_deployments, deployment_history,
                run, metrics>>

\* One call of is_feature_enabled; the caller keeps its arguments, the
\* draw (-1 for an identified user, whose bucket is the hash) and the result
Evaluate ==
    \E n \in QueryNames, u \in QueryUsers, sg \in QuerySegments,
       e \in QueryEnvironments :
      \E draw \in IF u = None THEN RandomDraws ELSE {-1} :
        /\ ret' = [op |-> "is_feature_enabled", feature_name |-> n,
                   user_id |-> u, user_segment |-> sg, environment |-> e,
                   draw |-> draw,
                   result |-> is_feature_enabled(feature_flags, hash_seed,
                                                 n, u, sg, e, draw)]
        /\ UNCHANGED flag_vars
        /\ FlagFrame

\* One call of update_feature_flag
Update ==
    \E n \in UpdateNames, kwargs \in UpdateKwargs :
        /\ feature_flags' = update_feature_flag(feature_flags, n, kwargs)
        /\ ret' = [op |-> "update_feature_flag", feature_name |-> n,
                   kwargs |-> kwargs]
        /\ UNCHANGED <<hash_seed, update_call>>
        /\ FlagFrame

\* The service is restarted: a new interpreter, a new hash salt, and
\* __init__ loads the flags again.  The caller still holds its last answer.
Restart ==
    /\ feature_flags' = LoadFeatureFlags
    /\ hash_seed' \in HashSeeds
    /\ UNCHANGED <<ret, update_call>>
    /\ FlagFrame

----------------------------------------------------------------------------
(* update_feature_flag as a coroutine next to callers of is_feature_enabled *)

\* No update_feature_flag coroutine exists
NoUpdate == [pc |-> "none"]

\* The order of the four `if "..." in kwargs:` statements (lines 683-690)
FieldOrder ==
    <<"enabled", "rollout_percentage", "target_segments", "environments">>

\* A body with an await after each assignment (what C21 rules out)
UpdateSuspendsAfterEachField(kwargs) == UpdatableFields \cap DOMAIN kwargs

\* The assignments of update_feature_flag after which the coroutine
\* suspends: the body (lines 677-692) contains no await, so there is none
UpdateSuspendsAfter(kwargs) == {}

\* The last statement of FieldOrder the coroutine executes when it resumes
\* at statement `from`: the first one it suspends after, or the fourth
UpdateStop(kwargs, from) ==
    LET stops == {k \in from .. 4 : FieldOrder[k] \in UpdateSuspendsAfter(kwargs)}
    IN IF stops = {} THEN 4 ELSE CHOOSE k \in stops : \A j \in stops : k <= j

\* The flag after statements from .. to of FieldOrder
AssignFields(flag, kwargs, from, to) ==
    [f \in DOMAIN flag |->
        IF \E k \in from .. to : FieldOrder[k] = f /\ f \in DOMAIN kwargs
        THEN kwargs[f] ELSE flag[f]]

\* The updates made next to readers: those that change several fields
OverlapKwargs == {kw \in UpdateKwargs : Cardinality(DOMAIN kw) >= 2}

\* A caller creates the coroutine update_feature_flag(n, **kwargs), as a
\* task or an awaited call; its body has not run yet.  `before` is the flag
\* table at the call (read only by properties).
UpdateCall ==
    /\ update_call.pc = "none"
    /\ \E n \in UpdateNames, kwargs \in OverlapKwargs :
         /\ update_call' = [pc |-> "called", feature_name |-> n,
                            kwargs |-> kwargs, next |-> 1,
                            before |-> feature_flags]
         /\ ret' = [op |-> "update_feature_flag", feature_name |-> n,
                    kwargs |-> kwargs]
    /\ UNCHANGED <<feature_flags, hash_seed>>
    /\ FlagFrame

\* The event loop runs the coroutine up to its next suspension, or to its
\* return
UpdateRun ==
    /\ update_call.pc = "called"
    /\ LET n == update_call.feature_name
           kwargs == update_call.kwargs
           stop == UpdateStop(kwargs, update_call.next)
       IN /\ feature_flags' =
                 IF n \notin DOMAIN feature_flags THEN feature_flags
                 ELSE [feature_flags EXCEPT
                         ![n] = AssignFields(@, kwargs, update_call.next, stop)]
          /\ update_call' =
                 IF n \notin DOMAIN feature_flags \/ stop = 4 THEN NoUpdate
                 ELSE [update_call EXCEPT !.next = stop + 1]
    /\ UNCHANGED <<hash_seed, ret>>
    /\ FlagFrame

----------------------------------------------------------------------------
(* The registry: __init__, create_deployment_plan *)

\* A coroutine that has not been started.  plan is the local variable
\* `plan` (0: unbound); traffic_percentage and i are the executors' locals.
\* routed .. notified record what this run did (read only by properties):
\*   routed     the percentage of its last completed _route_traffic_to_canary
\*              call during deploy and ramp (-1: none yet)
\*   cycles     completed passes of the ramp loop body
\*   fault      a collaborator failed under it: a call into git, kubectl,
\*              the cluster or Prometheus raised, or a validation was negative
\*   valfail    _validate_canary_metrics returned False to it
\*   rb_route0  completed _route_traffic_to_canary(plan, 0) calls
\*   rb_remove  completed canary-removal loops of _rollback_canary_deployment
\*   promoted   _promote_canary_to_stable completed
\*   failed     its executor returned False or an exception reached
\*              execute_deployment
\*   rolled     it entered _execute_rollback
IdleTask ==
    [pc |-> "idle", plan_id |-> <<0, Omitted>>, plan |-> 0,
     traffic_percentage |-> 0, i |-> 0, result |-> "none",
     routed |-> -1, cycles |-> 0, fault |-> FALSE, valfail |-> FALSE,
     rb_route0 |-> 0, rb_remove |-> 0, promoted |-> FALSE,
     failed |-> FALSE, rolled |-> FALSE]

NoRet == [op |-> "none"]

RegistryInit ==
    /\ clock = 0
    /\ plans = <<>>
    /\ active_deployments = <<>>          \* the empty dict
    /\ deployment_history = <<>>
    /\ ret = NoRet
    /\ feature_flags = LoadFeatureFlags
    /\ hash_seed = 1
    /\ update_call = NoUpdate

\* dict operations
DictSet(d, k, v) == [x \in DOMAIN d \cup {k} |-> IF x = k THEN v ELSE d[x]]
DictDel(d, k) == [x \in DOMAIN d \ {k} |-> d[x]]

\* time passes: the next int(time.time()) is one more
Tick ==
    /\ clock < MaxClock
    /\ clock' = clock + 1
    /\ UNCHANGED <<config, plans, active_deployments, deployment_history,
                   run, metrics, flag_vars>>

\* The keyword arguments a caller passes.  strategy may be omitted; a
\* strategy or target_environment outside the enum makes the Enum
\* constructor raise ValueError.

\* f"deploy_{int(time.time())}_{kwargs.get('strategy', 'rolling')}"
PlanId(now, strategyArg) ==
    <<now, IF strategyArg = Omitted THEN "rolling" ELSE strategyArg>>

\* DeploymentStrategy(kwargs.get("strategy", "rolling_update"))
StrategyOf(strategyArg) ==
    IF strategyArg = Omitted THEN "rolling_update" ELSE strategyArg

\* A constructor that checked the strategy alone (what C10 rules out)
CreateRaisesStrategyOnly(strategyArg, envArg) ==
    StrategyOf(strategyArg) \notin DeploymentStrategy

\* The constructor call of lines 237-250 raises
CreateRaises(strategyArg, envArg) ==
    \/ StrategyOf(strategyArg) \notin DeploymentStrategy
    \/ envArg \notin EnvironmentType

\* What self.active_deployments[plan_id] = plan does to the dict
Register(d, id, p) == DictSet(d, id, p)

\* The arguments callers pass, <<strategy, target_environment, number of
\* services, rollback_on_failure>>: every strategy and the strategy
\* omitted, with and without services; an unknown strategy; an unknown
\* environment
CreateArgs ==
    { <<st, "production", n, rof>> :
        st \in DeploymentStrategy \cup {Omitted},
        n \in 0 .. MaxServices, rof \in BOOLEAN }
    \cup { <<"quantum_leap", "production", 1, TRUE>>,
           <<"canary", "mars", 1, TRUE>> }

create_deployment_plan(strategyArg, envArg, n, rof) ==
    LET id == PlanId(clock, strategyArg) IN
    IF CreateRaises(strategyArg, envArg)
    THEN UNCHANGED <<clock, config, plans, active_deployments,
                     deployment_history, run, metrics, flag_vars>>
    ELSE /\ plans' = Append(plans,
                DeploymentPlan(id, StrategyOf(strategyArg), n, rof))
         /\ active_deployments' =
                Register(active_deployments, id, Len(plans) + 1)
         /\ UNCHANGED <<clock, config, deployment_history, run, metrics,
                        flag_vars>>

\* What the call gives its caller: the new id, or the exception
CreateResult(strategyArg, envArg) ==
    IF CreateRaises(strategyArg, envArg)
    THEN [op |-> "create", raised |-> TRUE, plan_id |-> <<0, Omitted>>,
          strategy |-> strategyArg, environment |-> envArg]
    ELSE [op |-> "create", raised |-> FALSE,
          plan_id |-> PlanId(clock, strategyArg),
          strategy |-> strategyArg, environment |-> envArg]

\* The event loop runs one coroutine at a time, up to an await that
\* suspends.  These awaited calls never suspend: _prepare_gitops_repo (git
\* pull / clone, synchronous), _deploy_canary_version and
\* _route_traffic_to_canary (their loops await only
\* _apply_kubernetes_manifest, a synchronous subprocess.run), and any loop
\* over an empty plan.services.  A coroutine at one of them is still
\* running, and nothing else is scheduled until it has passed it.
Running(t) ==
    \/ run[t].pc \in {"prepare", "deploy_canary", "route_initial",
                      "ramp_route", "cx_route0", "rb_route0"}
    \/ /\ run[t].pc \in {"promote", "cx_remove", "rb_remove"}
       /\ plans[run[t].plan].services = 0

\* Coroutine t, or a caller outside the coroutines (t = "caller"), can run
Scheduled(t) == \A u \in DOMAIN run \ {t} : ~Running(u)

\* A caller creates a plan, while the heap has room for one
Create ==
    /\ Len(plans) < MaxPlans
    /\ Scheduled("caller")
    /\ \E a \in CreateArgs :
         create_deployment_plan(a[1], a[2], a[3], a[4])
    /\ UNCHANGED ret

\* The registry alone, each call's outcome kept for inspection
CreateObserved ==
    /\ Len(plans) < MaxRegistryPlans
    /\ \E a \in CreateArgs :
         /\ create_deployment_plan(a[1], a[2], a[3], a[4])
         /\ ret' = CreateResult(a[1], a[2])

\* Time passes between two observed calls
TickObserved == Tick /\ ret' = NoRet

----------------------------------------------------------------------------
(* execute_deployment: entry, outcome handling, rollback, archival *)

\* Every step of a coroutine leaves these alone
Frame == UNCHANGED <<clock, config, metrics, ret, flag_vars>>

\* The steps below are written over r, the coroutine's record after the
\* step's own assignments to its locals, and P, the heap after the step's
\* own assignments to the plan.

Goto(t, r, P, pc) ==
    /\ plans' = P
    /\ run' = [run EXCEPT ![t] = [r EXCEPT !.pc = pc]]
    /\ UNCHANGED <<active_deployments, deployment_history>>

\* A cleanup that emptied active_deployments (what C25 rules out)
UnregisterAll(d, id) == <<>>

\* if plan_id in self.active_deployments: del self.active_deployments[plan_id]
Unregister(d, id) == IF id \in DOMAIN d THEN DictDel(d, id) ELSE d

\* self.deployment_history.append(plan)
Archive(h, p) == Append(h, p)

\* A finally block that let a collaborator's exception through to the
\* caller (what C13 rules out)
FinallyReraise(t, r, P) ==
    /\ plans' = P
    /\ deployment_history' = Archive(deployment_history, r.plan)
    /\ active_deployments' = Unregister(active_deployments, r.plan_id)
    /\ run' = [run EXCEPT ![t] =
                 [r EXCEPT !.pc = "done",
                           !.result = IF r.fault THEN "raised"
                                      ELSE IF P[r.plan].status = "COMPLETED"
                                      THEN "true" ELSE "false"]]

\* finally: (lines 301-305) and return plan.status == COMPLETED (line 307)
Finally(t, r, P) ==
    /\ plans' = P
    /\ deployment_history' = Archive(deployment_history, r.plan)
    /\ active_deployments' = Unregister(active_deployments, r.plan_id)
    /\ run' = [run EXCEPT ![t] =
                 [r EXCEPT !.pc = "done",
                           !.result = IF P[r.plan].status = "COMPLETED"
                                      THEN "true" ELSE "false"]]

\* A rollback that skipped the strategy's own steps (what C5 rules out)
RollbackEntryNone(strategy) == "rb_notify"

\* The awaited call _execute_rollback starts with (lines 556-562)
RollbackEntry(strategy) ==
    CASE strategy = "canary" -> "rb_route0"
      [] strategy = "blue_green" -> "rb_blue_green"
      [] OTHER -> "rb_standard"

\* _execute_rollback up to its first await: plan.status = ROLLED_BACK
ExecuteRollback(t, r, P) ==
    Goto(t, [r EXCEPT !.rolled = TRUE], [P EXCEPT ![r.plan].status = "ROLLED_BACK"],
         RollbackEntry(P[r.plan].strategy))

\* if plan.rollback_on_failure: await self._execute_rollback(plan)
RollbackIfConfigured(t, r, P) ==
    IF P[r.plan].rollback_on_failure
    THEN ExecuteRollback(t, r, P)
    ELSE Finally(t, r, P)

\* if success: (lines 282-285)
OnSuccess(t, r, P) ==
    Finally(t, r, [P EXCEPT ![r.plan].status = "COMPLETED",
                            ![r.plan].progress_percentage = Pct(100)])

\* else: (lines 286-291), the executor returned False
OnFailure(t, r, P) ==
    RollbackIfConfigured(t, [r EXCEPT !.failed = TRUE], [P EXCEPT ![r.plan].status = "FAILED"])

\* except Exception as e: (lines 293-299)
OnException(t, r, P, msg) ==
    RollbackIfConfigured(t, [r EXCEPT !.failed = TRUE], [P EXCEPT ![r.plan].status = "FAILED",
                                         ![r.plan].error_message = msg])

\* Ids a caller may pass: those of created plans, and one never created
KnownIds == {plans[p].plan_id : p \in DOMAIN plans}
UnknownId == <<0, "unknown">>

\* A lookup that fell back to the archived plans, as get_deployment_status
\* does (what C12 rules out)
execute_deployment_FromHistory(t, id) ==
    /\ run[t].pc = "idle"
    /\ LET found == {p \in DOMAIN plans : plans[p].plan_id = id} IN
       IF found = {}
       THEN /\ run' = [run EXCEPT ![t] =
                         [@ EXCEPT !.pc = "done", !.plan_id = id,
                                   !.result = "false"]]
            /\ UNCHANGED <<plans, active_deployments, deployment_history>>
       ELSE LET p == CHOOSE q \in found : TRUE IN
            Goto(t, [run[t] EXCEPT !.plan_id = id, !.plan = p],
                 [plans EXCEPT ![p].status = "IN_PROGRESS"], "prepare")
    /\ Frame

\* execute_deployment up to its first await (lines 259-269)
execute_deployment(t, id) ==
    /\ run[t].pc = "idle"
    /\ IF id \notin DOMAIN active_deployments
       THEN /\ run' = [run EXCEPT ![t] =
                         [@ EXCEPT !.pc = "done", !.plan_id = id,
                                   !.result = "false"]]
            /\ UNCHANGED <<plans, active_deployments, deployment_history>>
       ELSE LET p == active_deployments[id] IN
            Goto(t, [run[t] EXCEPT !.plan_id = id, !.plan = p],
                 [plans EXCEPT ![p].status = "IN_PROGRESS"], "prepare")
    /\ Frame

Execute == \E t \in DOMAIN run, id \in KnownIds \cup {UnknownId} :
               Scheduled(t) /\ execute_deployment(t, id)

\* The executor's code up to its first await (lines 340, 390, 432-439, 458-465)
Dispatch(t, r, P) ==
    LET p == r.plan
        Progress(x) == [P EXCEPT ![p].progress_percentage = Pct(x)]
    IN CASE P[p].strategy = "canary" -> Goto(t, r, Progress(10), "deploy_canary")
         [] P[p].strategy = "blue_green" -> Goto(t, r, Progress(20), "deploy_green")
         [] P[p].strategy = "rolling_update" ->
               IF P[p].services = 0
               THEN Goto(t, r, Progress(90), "validate_rolling")
               ELSE Goto(t, [r EXCEPT !.i = 0], Progress(20), "update_rolling")
         [] P[p].strategy = "immediate" ->
               IF P[p].services = 0
               THEN Goto(t, r, Progress(90), "validate_immediate")
               ELSE Goto(t, [r EXCEPT !.i = 0], Progress(20), "update_immediate")

\* await self._prepare_gitops_repo(): git pull / clone, re-raised on failure
PrepareGitopsRepo(t) ==
    /\ run[t].pc = "prepare"
    /\ \E ok \in BOOLEAN :
         IF ok THEN Dispatch(t, run[t], plans)
         ELSE OnException(t, [run[t] EXCEPT !.fault = TRUE], plans, "git")
    /\ Frame

----------------------------------------------------------------------------
(* Calls into the cluster *)

\* _deploy_canary_version: _generate_canary_manifest is an async def called
\* without await (line 482), so _apply_kubernetes_manifest gets a coroutine
\* object and f.write(manifest) raises TypeError, for the first service.
\* With no service the loop body never runs.
DeployCanaryOutcomes(n) == IF n = 0 THEN {"ok"} ELSE {"raise"}

\* A loop over plan.services around _apply_kubernetes_manifest (kubectl
\* apply, check=True) or _remove_canary_deployment: any pass may raise;
\* with no service nothing is called.
ServiceLoopOutcomes(n) == IF n = 0 THEN {"ok"} ELSE {"ok", "raise"}

\* One awaited call of a helper that takes the plan or one service
CallOutcomes == {"ok", "raise"}

\* One awaited validation helper
ValidationOutcomes == {"true", "false", "raise"}

----------------------------------------------------------------------------
(* _execute_canary_deployment *)

Min(a, b) == IF a < b THEN a ELSE b

\* A ramp step without the cap (what C6 rules out)
NextTrafficUncapped(traffic, increment) == traffic + increment

\* traffic_percentage = min(100, traffic_percentage + increment)
NextTraffic(traffic, increment) == Min(100, traffic + increment)

\* plan.progress_percentage = 20 + (traffic_percentage * 0.7), in tenths
RampProgress(traffic) == Pct(20) + 7 * traffic

\* A ramp that went on to the promotion from any percentage (what C26
\* rules out)
RampLoopPromoteAtOnce(t, r, P) ==
    Goto(t, r, [P EXCEPT ![r.plan].progress_percentage = Pct(95)], "promote")

\* while traffic_percentage < 100: ... else on to step 4 (line 370)
RampLoop(t, r, P) ==
    IF r.traffic_percentage < 100
    THEN Goto(t, r, P, "ramp_sleep")
    ELSE Goto(t, r, [P EXCEPT ![r.plan].progress_percentage = Pct(95)],
              "promote")

\* except Exception: (line 377) up to await self._rollback_canary_deployment
CanaryExcept(t, r, P) == Goto(t, [r EXCEPT !.fault = TRUE], P, "cx_route0")

\* await self._deploy_canary_version(plan); plan.progress_percentage = 20
DeployCanaryVersion(t) ==
    /\ run[t].pc = "deploy_canary"
    /\ \E out \in DeployCanaryOutcomes(plans[run[t].plan].services) :
         IF out = "ok"
         THEN Goto(t, run[t],
                   [plans EXCEPT ![run[t].plan].progress_percentage = Pct(20)],
                   "route_initial")
         ELSE Goto(t, run[t], plans, "cx_route0")
    /\ Frame

\* await self._route_traffic_to_canary(plan, initial_traffic)
RouteInitialTraffic(t) ==
    /\ run[t].pc = "route_initial"
    /\ LET initial == config.canary.initial_traffic_percentage IN
       \E out \in ServiceLoopOutcomes(plans[run[t].plan].services) :
         IF out = "ok"
         THEN RampLoop(t, [run[t] EXCEPT !.traffic_percentage = initial,
                                         !.routed = initial], plans)
         ELSE CanaryExcept(t, run[t], plans)
    /\ Frame

\* await asyncio.sleep(wait_time)
RampSleep(t) ==
    /\ run[t].pc = "ramp_sleep"
    /\ run[t].cycles < MaxCycles
    /\ Goto(t, run[t], plans, "ramp_validate")
    /\ Frame

\* if not await self._validate_canary_metrics(plan): return False
\* else traffic_percentage = min(100, traffic_percentage + increment)
RampValidate(t) ==
    /\ run[t].pc = "ramp_validate"
    /\ \E ok \in ValidationResults :
         IF ok
         THEN Goto(t, [run[t] EXCEPT !.traffic_percentage =
                          NextTraffic(@, config.canary.traffic_increment)],
                   plans, "ramp_route")
         ELSE OnFailure(t, [run[t] EXCEPT !.valfail = TRUE, !.fault = TRUE],
                        plans)
    /\ Frame

\* await self._route_traffic_to_canary(plan, traffic_percentage)
\* plan.progress_percentage = 20 + (traffic_percentage * 0.7)
RampRoute(t) ==
    /\ run[t].pc = "ramp_route"
    /\ \E out \in ServiceLoopOutcomes(plans[run[t].plan].services) :
         IF out = "ok"
         THEN RampLoop(t, [run[t] EXCEPT !.routed = run[t].traffic_percentage,
                                         !.cycles = @ + 1],
                       [plans EXCEPT ![run[t].plan].progress_percentage =
                           RampProgress(run[t].traffic_percentage)])
         ELSE CanaryExcept(t, run[t], plans)
    /\ Frame

\* await self._promote_canary_to_stable(plan); progress 100; return True
PromoteCanaryToStable(t) ==
    /\ run[t].pc = "promote"
    /\ \E out \in ServiceLoopOutcomes(plans[run[t].plan].services) :
         IF out = "ok"
         THEN OnSuccess(t, [run[t] EXCEPT !.promoted = TRUE],
                  [plans EXCEPT ![run[t].plan].progress_percentage = Pct(100)])
         ELSE CanaryExcept(t, run[t], plans)
    /\ Frame

\* The except handler's await self._rollback_canary_deployment(plan):
\* an exception of the handler leaves _execute_canary_deployment and is
\* caught by execute_deployment; otherwise return False.
CanaryExceptRoute0(t) ==
    /\ run[t].pc = "cx_route0"
    /\ \E out \in ServiceLoopOutcomes(plans[run[t].plan].services) :
         IF out = "ok"
         THEN Goto(t, [run[t] EXCEPT !.rb_route0 = @ + 1], plans, "cx_remove")
         ELSE OnException(t, [run[t] EXCEPT !.fault = TRUE], plans, "kubectl")
    /\ Frame

CanaryExceptRemove(t) ==
    /\ run[t].pc = "cx_remove"
    /\ \E out \in ServiceLoopOutcomes(plans[run[t].plan].services) :
         IF out = "ok"
         THEN OnFailure(t, [run[t] EXCEPT !.rb_remove = @ + 1], plans)
         ELSE OnException(t, [run[t] EXCEPT !.fault = TRUE], plans, "remove")
    /\ Frame

----------------------------------------------------------------------------
(* _execute_rollback after plan.status = ROLLED_BACK: the try block *)

\* A handler that put the plan back to FAILED when the rollback raised
\* (what C28 rules out)
RollbackExceptFailed(t, r, P) ==
    Finally(t, [r EXCEPT !.fault = TRUE], [P EXCEPT ![r.plan].status = "FAILED"])

\* except Exception as e: logger.error(...) (lines 569-570): the exception
\* of a rollback call ends _execute_rollback, the notification is skipped,
\* and execute_deployment goes on to its finally block
RollbackExcept(t, r, P) == Finally(t, [r EXCEPT !.fault = TRUE], P)

\* await self._rollback_canary_deployment(plan): route 0, then the removals;
\* except Exception: logged, not re-raised
RollbackRoute0(t) ==
    /\ run[t].pc = "rb_route0"
    /\ \E out \in ServiceLoopOutcomes(plans[run[t].plan].services) :
         IF out = "ok"
         THEN Goto(t, [run[t] EXCEPT !.rb_route0 = @ + 1], plans, "rb_remove")
         ELSE RollbackExcept(t, run[t], plans)
    /\ Frame

RollbackRemove(t) ==
    /\ run[t].pc = "rb_remove"
    /\ \E out \in ServiceLoopOutcomes(plans[run[t].plan].services) :
         IF out = "ok"
         THEN Goto(t, [run[t] EXCEPT !.rb_remove = @ + 1], plans, "rb_notify")
         ELSE RollbackExcept(t, run[t], plans)
    /\ Frame

\* await self._send_rollback_notification(plan): its own try/except keeps
\* every failure of the post inside; then the finally of execute_deployment
SendRollbackNotification(t) ==
    /\ run[t].pc = "rb_notify"
    /\ Finally(t, run[t], plans)
    /\ Frame

\* await self._rollback_blue_green_deployment(plan)
RollbackBlueGreen(t) ==
    /\ run[t].pc = "rb_blue_green"
    /\ \E out \in CallOutcomes :
         IF out = "ok"
         THEN Goto(t, run[t], plans, "rb_notify")
         ELSE RollbackExcept(t, run[t], plans)
    /\ Frame

\* await self._rollback_standard_deployment(plan)
RollbackStandard(t) ==
    /\ run[t].pc = "rb_standard"
    /\ \E out \in CallOutcomes :
         IF out = "ok"
         THEN Goto(t, run[t], plans, "rb_notify")
         ELSE RollbackExcept(t, run[t], plans)
    /\ Frame

----------------------------------------------------------------------------
(* _execute_blue_green_deployment: every exception ends in return False *)

SetProgress(P, p, x) == [P EXCEPT ![p].progress_percentage = Pct(x)]

Faulted(r) == [r EXCEPT !.fault = TRUE]

\* await self._deploy_green_environment(plan); plan.progress_percentage = 50
DeployGreenEnvironment(t) ==
    /\ run[t].pc = "deploy_green"
    /\ \E out \in CallOutcomes :
         IF out = "ok"
         THEN Goto(t, run[t], SetProgress(plans, run[t].plan, 50), "validation_sleep")
         ELSE OnFailure(t, Faulted(run[t]), plans)
    /\ Frame

\* await asyncio.sleep(bg_config["validation_duration"])
ValidationSleep(t) ==
    /\ run[t].pc = "validation_sleep"
    /\ Goto(t, run[t], plans, "validate_green")
    /\ Frame

\* A validation whose negative result did not stop the run (what C27
\* rules out)
ValidateGreenEnvironmentIgnored(t) ==
    /\ run[t].pc = "validate_green"
    /\ \E out \in ValidationOutcomes :
         Goto(t, IF out = "true" THEN run[t] ELSE Faulted(run[t]),
              SetProgress(plans, run[t].plan, 80),
              IF config.auto_promotion THEN "switch_green"
                                       ELSE "approval_sleep")
    /\ Frame

\* if not await self._validate_green_environment(plan): return False
\* plan.progress_percentage = 80; if bg_config["auto_promotion"]: ...
ValidateGreenEnvironment(t) ==
    /\ run[t].pc = "validate_green"
    /\ \E out \in ValidationOutcomes :
         IF out = "true"
         THEN Goto(t, run[t], SetProgress(plans, run[t].plan, 80),
                   IF config.auto_promotion THEN "switch_green"
                                            ELSE "approval_sleep")
         ELSE OnFailure(t, Faulted(run[t]), plans)
    /\ Frame

\* await asyncio.sleep(60)
ApprovalSleep(t) ==
    /\ run[t].pc = "approval_sleep"
    /\ Goto(t, run[t], plans, "switch_green")
    /\ Frame

\* await self._switch_traffic_to_green(plan); plan.progress_percentage = 95
SwitchTrafficToGreen(t) ==
    /\ run[t].pc = "switch_green"
    /\ \E out \in CallOutcomes :
         IF out = "ok"
         THEN Goto(t, run[t], SetProgress(plans, run[t].plan, 95), "cleanup_blue")
         ELSE OnFailure(t, Faulted(run[t]), plans)
    /\ Frame

\* await self._cleanup_blue_environment(plan); progress 100; return True
CleanupBlueEnvironment(t) ==
    /\ run[t].pc = "cleanup_blue"
    /\ \E out \in CallOutcomes :
         IF out = "ok"
         THEN OnSuccess(t, run[t], SetProgress(plans, run[t].plan, 100))
         ELSE OnFailure(t, Faulted(run[t]), plans)
    /\ Frame

----------------------------------------------------------------------------
(* _execute_rolling_deployment, _execute_immediate_deployment *)

\* An increment of the whole 60 for each service (what C22 rules out)
ServiceProgressWhole(progress, n) == progress + Pct(60)

\* plan.progress_percentage += 60 / len(plan.services), in tenths; the
\* division is exact for the service counts used here
ServiceProgress(progress, n) == progress + (Pct(60) \div n)

\* One pass of `for service in plan.services:`, then (after the last
\* service) plan.progress_percentage = 90 and on to the validation
UpdateService(t, here, validate) ==
    /\ run[t].pc = here
    /\ LET p == run[t].plan
           r == [run[t] EXCEPT !.i = @ + 1]
           P == [plans EXCEPT ![p].progress_percentage =
                    ServiceProgress(@, plans[p].services)]
       IN \E out \in CallOutcomes :
            IF out = "ok"
            THEN IF r.i >= plans[p].services
                 THEN Goto(t, r, SetProgress(P, p, 90), validate)
                 ELSE Goto(t, r, P, here)
            ELSE OnFailure(t, Faulted(run[t]), plans)
    /\ Frame

\* if not await self._validate_..._deployment(plan): return False
\* plan.progress_percentage = 100; return True
ValidateDeployment(t, here) ==
    /\ run[t].pc = here
    /\ \E out \in ValidationOutcomes :
         IF out = "true"
         THEN OnSuccess(t, run[t], SetProgress(plans, run[t].plan, 100))
         ELSE OnFailure(t, Faulted(run[t]), plans)
    /\ Frame

\* await self._update_service_rolling(plan, service, rolling_config)
UpdateServiceRolling(t) == UpdateService(t, "update_rolling", "validate_rolling")

\* await self._validate_rolling_deployment(plan)
ValidateRollingDeployment(t) == ValidateDeployment(t, "validate_rolling")

\* await self._update_service_immediate(plan, service)
UpdateServiceImmediate(t) ==
    UpdateService(t, "update_immediate", "validate_immediate")

\* await self._validate_immediate_deployment(plan)
ValidateImmediateDeployment(t) == ValidateDeployment(t, "validate_immediate")

----------------------------------------------------------------------------

Step(t) ==
    \/ PrepareGitopsRepo(t)
    \/ DeployCanaryVersion(t)
    \/ RouteInitialTraffic(t)
    \/ RampSleep(t)
    \/ RampValidate(t)
    \/ RampRoute(t)
    \/ PromoteCanaryToStable(t)
    \/ CanaryExceptRoute0(t)
    \/ CanaryExceptRemove(t)
    \/ RollbackRoute0(t)
    \/ RollbackRemove(t)
    \/ SendRollbackNotification(t)
    \/ RollbackBlueGreen(t)
    \/ RollbackStandard(t)
    \/ DeployGreenEnvironment(t)
    \/ ValidationSleep(t)
    \/ ValidateGreenEnvironment(t)
    \/ ApprovalSleep(t)
    \/ SwitchTrafficToGreen(t)
    \/ CleanupBlueEnvironment(t)
    \/ UpdateServiceRolling(t)
    \/ ValidateRollingDeployment(t)
    \/ UpdateServiceImmediate(t)
    \/ ValidateImmediateDeployment(t)

Next ==
    \/ Tick /\ UNCHANGED ret
    \/ Create
    \/ Execute
    \/ \E t \in DOMAIN run : Scheduled(t) /\ Step(t)

----------------------------------------------------------------------------
(* get_deployment_status, list_active_deployments *)

\* for historical_plan in self.deployment_history: the first entry whose
\* plan_id matches, or no plan (0 stands for None)
HistoryLookup(id) ==
    LET ks == {k \in DOMAIN deployment_history :
                  plans[deployment_history[k]].plan_id = id} IN
    IF ks = {} THEN 0
    ELSE deployment_history[CHOOSE k \in ks : \A j \in ks : k <= j]

\* What get_deployment_status(plan_id) returns: a reference to the plan
StatusResult(id) ==
    IF id \in DOMAIN active_deployments THEN active_deployments[id]
    ELSE HistoryLookup(id)

\* What the queries leave alone besides the registry
QueryFrame == UNCHANGED <<clock, config, run, metrics, flag_vars>>

\* A status query that took the plan out of active_deployments as it read
\* it (what C16 rules out)
GetDeploymentStatusPopping ==
    /\ Scheduled("caller")
    /\ \E id \in KnownIds \cup {UnknownId} :
         /\ ret' = [op |-> "get_deployment_status", plan_id |-> id,
                    result |-> StatusResult(id)]
         /\ active_deployments' = Unregister(active_deployments, id)
    /\ UNCHANGED <<plans, deployment_history>>
    /\ QueryFrame

\* get_deployment_status has no await: it runs whenever the event loop
\* gives the caller a turn, also between two steps of an execution
GetDeploymentStatus ==
    /\ Scheduled("caller")
    /\ \E id \in KnownIds \cup {UnknownId} :
         ret' = [op |-> "get_deployment_status", plan_id |-> id,
                 result |-> StatusResult(id)]
    /\ UNCHANGED <<plans, active_deployments, deployment_history>>
    /\ QueryFrame

\* list(self.active_deployments.values()): the plans, here as a set
ListActiveDeployments ==
    /\ Scheduled("caller")
    /\ ret' = [op |-> "list_active_deployments",
               result |-> {active_deployments[id] :
                              id \in DOMAIN active_deployments}]
    /\ UNCHANGED <<plans, active_deployments, deployment_history>>
    /\ QueryFrame

----------------------------------------------------------------------------

\* One caller at a time, under every configuration
Init == /\ RegistryInit
        /\ config \in Configs
        /\ run = [t \in {"t1"} |-> IdleTask]
        /\ metrics = [pc |-> "unused"]

Spec == Init /\ [][Next]_vars

\* Two callers whose execute_deployment calls may overlap, under the
\* default configuration
InitOverlap ==
    /\ RegistryInit
    /\ config = [canary |-> DefaultCanary, auto_promotion |-> FALSE]
    /\ run = [t \in Tasks |-> IdleTask]
    /\ metrics = [pc |-> "unused"]

SpecOverlap == InitOverlap /\ [][Next]_vars

\* The registry under create calls alone
InitRegistry ==
    /\ RegistryInit
    /\ config = [canary |-> DefaultCanary, auto_promotion |-> FALSE]
    /\ run = [t \in {"t1"} |-> IdleTask]
    /\ metrics = [pc |-> "unused"]

NextRegistry == TickObserved \/ CreateObserved

SpecRegistry == InitRegistry /\ [][NextRegistry]_vars

\* _validate_canary_metrics alone
InitMetrics ==
    /\ RegistryInit
    /\ config = [canary |-> DefaultCanary, auto_promotion |-> FALSE]
    /\ run = [t \in {"t1"} |-> IdleTask]
    /\ MetricsInit

SpecMetrics == InitMetrics /\ [][MetricsValidate]_vars

\* Executions observed by a caller of the two queries, under the default
\* configuration
NextObserve == Next \/ GetDeploymentStatus \/ ListActiveDeployments

SpecObserve == InitRegistry /\ [][NextObserve]_vars

\* The feature flags alone, in one process
NextFlags == Evaluate \/ Update

SpecFlags == InitRegistry /\ [][NextFlags]_vars

\* The flags as loaded, queried across restarts of the service
NextFlagsRestart == Evaluate \/ Restart

\* Two plans with different ids, created in the same second by two
\* create_deployment_plan calls, and two callers of execute_deployment.
\* Each entry is <<strategy, number of services, rollback_on_failure>>.
FirstPlans == { <<"canary", 0, TRUE>>, <<"canary", 1, TRUE>> }

SecondPlans ==
    { <<"blue_green", 1, TRUE>>, <<"rolling_update", 1, TRUE>>,
      <<"immediate", 1, FALSE>> }

PlanOf(a) == DeploymentPlan(PlanId(0, a[1]), StrategyOf(a[1]), a[2], a[3])

InitTwoPlans ==
    /\ clock = 0
    /\ \E a \in FirstPlans, b \in SecondPlans :
         /\ plans = <<PlanOf(a), PlanOf(b)>>
         /\ active_deployments =
                Register(Register(<<>>, PlanId(0, a[1]), 1), PlanId(0, b[1]), 2)
    /\ deployment_history = <<>>
    /\ ret = NoRet
    /\ feature_flags = LoadFeatureFlags
    /\ hash_seed = 1
    /\ update_call = NoUpdate
    /\ config = [canary |-> DefaultCanary, auto_promotion |-> FALSE]
    /\ run = [t \in Tasks |-> IdleTask]
    /\ metrics = [pc |-> "unused"]

NextTwoPlans == Execute \/ \E t \in DOMAIN run : Scheduled(t) /\ Step(t)

SpecTwoPlans == InitTwoPlans /\ [][NextTwoPlans]_vars

SpecFlagsRestart == InitRegistry /\ [][NextFlagsRestart]_vars

\* is_feature_enabled calls next to an update_feature_flag coroutine
NextFlagsOverlap == Evaluate \/ UpdateCall \/ UpdateRun

SpecFlagsOverlap == InitRegistry /\ [][NextFlagsOverlap]_vars

----------------------------------------------------------------------------
(* Properties *)

Terminal == {"COMPLETED", "FAILED", "ROLLED_BACK"}

\* Number of entries of list h equal to x
Count(h, x) == Cardinality({k \in DOMAIN h : h[k] = x})

\* The step in which coroutine t runs the finally block of
\* execute_deployment and returns
Archives(t) == run[t].pc # "done" /\ run'[t].pc = "done" /\ run'[t].plan # 0

\* C1: once a plan's status is COMPLETED, FAILED or ROLLED_BACK, no later
\* step of any execute_deployment run changes its status,
\* progress_percentage or error_message.
C1_TerminalImmutable ==
    [][\A p \in DOMAIN plans :
          plans[p].status \in Terminal =>
              /\ plans'[p].status = plans[p].status
              /\ plans'[p].progress_percentage = plans[p].progress_percentage
              /\ plans'[p].error_message = plans[p].error_message]_vars

\* C2: once every execute_deployment call has returned, each plan a call
\* ran on is in deployment_history exactly once and its id is no longer in
\* active_deployments, also when two calls for the same plan_id overlapped.
C2_ArchivedExactlyOnce ==
    (\A t \in DOMAIN run : run[t].pc \in {"idle", "done"}) =>
        \A t \in DOMAIN run :
            run[t].plan # 0 =>
                /\ Count(deployment_history, run[t].plan) = 1
                /\ run[t].plan_id \notin DOMAIN active_deployments

\* C3: _validate_canary_metrics returns True only when both queries gave a
\* sample and neither sample exceeds its threshold; a query that raises,
\* times out, reports a non-success status or gives an empty result makes
\* it return False.
C3_FailClosed ==
    metrics.pc = "returned" =>
        (metrics.result <=>
            /\ metrics.error_rate.kind = "sample"
            /\ metrics.error_rate.value <= ErrorRateThreshold
            /\ metrics.response_time.kind = "sample"
            /\ metrics.response_time.value <= ResponseTimeThreshold)

\* C4: when the executor returned failure or raised, the plan is archived
\* with status ROLLED_BACK after _execute_rollback ran if
\* rollback_on_failure is true, and with status FAILED and no rollback if
\* it is false.
C4_FailureArchival ==
    [][\A t \in DOMAIN run :
          (Archives(t) /\ run'[t].failed) =>
              LET p == run'[t].plan IN
              IF plans'[p].rollback_on_failure
              THEN run'[t].rolled /\ plans'[p].status = "ROLLED_BACK"
              ELSE ~run'[t].rolled /\ plans'[p].status = "FAILED"]_vars

\* The canary configuration for which the ramp's cycle count is defined
RampConfigured ==
    /\ config.canary.initial_traffic_percentage \in 0 .. 100
    /\ config.canary.traffic_increment >= 1

\* The ramp of coroutine t stands still in this step
RampStopped(t) ==
    /\ run'[t].traffic_percentage = run[t].traffic_percentage
    /\ run'[t].routed = run[t].routed
    /\ run'[t].cycles = run[t].cycles
    /\ ~run'[t].promoted

C6_TrafficMonotoneCapped ==
    [][RampConfigured =>
          \A t \in DOMAIN run :
              /\ run'[t].routed >= run[t].routed
              /\ run'[t].routed <= 100]_vars

\* A ramp that went from 10 through 30 and on to 100
C6_Witness ==
    \E t \in DOMAIN run :
        /\ config.canary = DefaultCanary
        /\ run[t].routed = 100 /\ run[t].cycles = 5

\* ceil((100 - initial) / increment), for increment >= 1
RampCycles ==
    (100 - config.canary.initial_traffic_percentage
        + config.canary.traffic_increment - 1)
            \div config.canary.traffic_increment

\* C7: a canary run under which no collaborator failed and every
\* validation passed returns with traffic 100 and status COMPLETED after
\* exactly ceil((100 - initial) / increment) ramp cycles (stated for the
\* configurations for which that count is defined).
C7_HealthyCanaryCompletes ==
    \A t \in DOMAIN run :
        (/\ run[t].pc = "done" /\ run[t].plan # 0
         /\ plans[run[t].plan].strategy = "canary"
         /\ ~run[t].fault
         /\ RampConfigured) =>
            /\ plans[run[t].plan].status = "COMPLETED"
            /\ run[t].traffic_percentage = 100
            /\ run[t].cycles = RampCycles

\* C8: while a plan's status is IN_PROGRESS its progress_percentage never
\* decreases from one step to the next, and it is always within 0..100.
C8_ProgressMonotoneBounded ==
    [][\A p \in DOMAIN plans :
          /\ (plans[p].status = "IN_PROGRESS" /\ plans'[p].status = "IN_PROGRESS")
                => plans'[p].progress_percentage >= plans[p].progress_percentage
          /\ plans'[p].progress_percentage \in Pct(0) .. Pct(100)]_vars

\* C9: create_deployment_plan never returns the id of a plan that was in
\* active_deployments when it was called, also for two creations with the
\* same strategy in the same clock second.
C9_FreshPlanId ==
    [][(ret'.op = "create" /\ ~ret'.raised) =>
          ret'.plan_id \notin DOMAIN active_deployments]_vars

\* The strategy or target_environment argument is outside its enum
InvalidCreate(r) ==
    \/ r.strategy \notin DeploymentStrategy \cup {Omitted}
    \/ r.environment \notin EnvironmentType

\* C10: create_deployment_plan with a strategy or target_environment
\* outside the enums raises, returns no plan id, and leaves
\* active_deployments and deployment_history as they were.
C10_InvalidCreateRejected ==
    [][(ret'.op = "create" /\ InvalidCreate(ret')) =>
          /\ ret'.raised
          /\ active_deployments' = active_deployments
          /\ deployment_history' = deployment_history
          /\ plans' = plans]_vars

\* An unknown strategy and an unknown environment, each rejected while a
\* plan is active
C10_Witness ==
    /\ ret.op = "create" /\ ret.raised
    /\ InvalidCreate(ret)
    /\ DOMAIN active_deployments # {}

\* C11: create_deployment_plan rejects an empty or omitted service list, so
\* no plan without services is ever in active_deployments.
C11_EmptyServicesRejected ==
    \A id \in DOMAIN active_deployments :
        plans[active_deployments[id]].services >= 1

\* C12: execute_deployment on a plan_id that is not in active_deployments
\* returns False at once and changes neither active_deployments,
\* deployment_history nor any plan.
C12_UnknownPlanNotFound ==
    [][\A t \in DOMAIN run :
          (/\ run[t].pc = "idle" /\ run'[t].pc # "idle"
           /\ run'[t].plan_id \notin DOMAIN active_deployments) =>
              /\ run'[t].pc = "done"
              /\ run'[t].result = "false"
              /\ run'[t].plan = 0
              /\ plans' = plans
              /\ active_deployments' = active_deployments
              /\ deployment_history' = deployment_history]_vars

\* A call for the id of a plan that another call has already archived
C12_Witness ==
    \E t \in DOMAIN run :
        /\ run[t].pc = "done" /\ run[t].plan = 0 /\ run[t].result = "false"
        /\ run[t].plan_id \in KnownIds
        /\ run[t].plan_id \notin DOMAIN active_deployments
        /\ Len(deployment_history) = 1

\* C13: whatever collaborator call failed, execute_deployment returns to
\* its caller and does not raise; it returns True exactly when the plan's
\* status at that moment is COMPLETED, and False otherwise.
C13_ReturnsStatusNeverRaises ==
    [][\A t \in DOMAIN run :
          (run[t].pc # "done" /\ run'[t].pc = "done") =>
              run'[t].result =
                  IF /\ run'[t].plan # 0
                     /\ plans'[run'[t].plan].status = "COMPLETED"
                  THEN "true" ELSE "false"]_vars

\* A call whose repository preparation raised and that rolled back
C13_Witness ==
    \E t \in DOMAIN run :
        /\ run[t].pc = "done" /\ run[t].fault /\ run[t].rolled
        /\ plans[run[t].plan].error_message = "git"
        /\ plans[run[t].plan].status = "ROLLED_BACK"
        /\ run[t].result = "false"

----------------------------------------------------------------------------
(* Time budgets *)

\* canary.wait_time_between_steps, blue_green.validation_duration and the
\* approval sleep of _execute_blue_green_deployment, in seconds
WaitTimeBetweenSteps == 300
ValidationDuration == 600
ApprovalSleepSeconds == 60

\* timeout_seconds of a plan: what a caller passed, or the default of
\* create_deployment_plan.  The constructor stores it and no other line
\* reads it, so a plan's steps are the same under every budget and the plan
\* record above does not carry it.
TimeoutBudgets == {900, 1800}

\* Seconds coroutine t has spent in asyncio.sleep calls that have returned,
\* while it is inside its executor (0 once it has left it)
Slept(t) ==
    LET pc == run[t].pc IN
    CASE pc \in {"ramp_validate", "ramp_route"} ->
             (run[t].cycles + 1) * WaitTimeBetweenSteps
      [] pc \in {"ramp_sleep", "promote"} ->
             run[t].cycles * WaitTimeBetweenSteps
      [] pc \in {"validate_green", "approval_sleep"} -> ValidationDuration
      [] pc \in {"switch_green", "cleanup_blue"} ->
             ValidationDuration +
                 (IF config.auto_promotion THEN 0 ELSE ApprovalSleepSeconds)
      [] OTHER -> 0

\* C14: an execution that has run longer than the plan's timeout_seconds
\* is stopped and handled as a step failure; it is never still inside its
\* executor, waiting or ramping, past the budget.
C14_TimeoutStopsExecution ==
    \A t \in DOMAIN run, budget \in TimeoutBudgets : Slept(t) <= budget

----------------------------------------------------------------------------
(* Abort *)

\* The awaits of asyncio.sleep: the canary step wait, the blue-green
\* validation wait and the approval wait
WaitPcs == {"ramp_sleep", "validation_sleep", "approval_sleep"}

\* Coroutine t takes a step that enters _execute_rollback
EntersRollback(t) == Step(t) /\ ~run[t].rolled /\ run'[t].rolled

\* C15: a plan that is IN_PROGRESS and suspended in a wait can be aborted:
\* the run can leave the wait for the rollback without the wait running to
\* its end.
C15_AbortInterruptsWait ==
    \A t \in DOMAIN run :
        (/\ run[t].pc \in WaitPcs
         /\ plans[run[t].plan].status = "IN_PROGRESS") =>
            ENABLED EntersRollback(t)

\* C16: get_deployment_status and list_active_deployments change no plan
\* and neither active_deployments nor deployment_history, also when they
\* run between two steps of an execution in flight.
C16_QueriesChangeNothing ==
    [][(GetDeploymentStatus \/ ListActiveDeployments) =>
          /\ plans' = plans
          /\ active_deployments' = active_deployments
          /\ deployment_history' = deployment_history
          /\ run' = run]_vars

\* A status query answered with the plan while its execution is suspended
\* in the middle of the service updates
C16_Witness ==
    /\ ret.op = "get_deployment_status" /\ ret.result # 0
    /\ plans[ret.result].status = "IN_PROGRESS"
    /\ \E t \in DOMAIN run :
           run[t].plan = ret.result /\ run[t].pc = "update_rolling"
                                    /\ run[t].i >= 1

\* C17: for a fixed flag, identified user, segment and environment, an
\* update that only raises rollout_percentage from p to p' (p < p' <= 100)
\* never turns the answer of is_feature_enabled from True to False.
C17_RolloutMonotone ==
    [][\A n \in FlagNames :
          LET old == feature_flags[n]
              new == feature_flags'[n]
          IN (/\ new = [old EXCEPT !.rollout_percentage =
                                      new.rollout_percentage]
              /\ old.rollout_percentage < new.rollout_percentage
              /\ new.rollout_percentage <= 100) =>
                 \A u \in UserIds, sg \in QuerySegments,
                    e \in QueryEnvironments :
                     is_feature_enabled(feature_flags, hash_seed,
                                        n, u, sg, e, 0)
                       => is_feature_enabled(feature_flags', hash_seed',
                                             n, u, sg, e, 0)]_vars

\* The arguments of an is_feature_enabled call
QueryArgs(r) == <<r.feature_name, r.user_id, r.user_segment, r.environment>>

\* C18: two calls of is_feature_enabled for an identified user with the
\* same flag name, user id, segment and environment, and no
\* update_feature_flag between them, return the same result.
C18_IdentifiedUserDeterministic ==
    [][(/\ ret.op = "is_feature_enabled" /\ ret'.op = "is_feature_enabled"
        /\ ret.user_id # None
        /\ QueryArgs(ret') = QueryArgs(ret)) =>
            ret'.result = ret.result]_vars

\* The call recorded in r is stopped by one of the three gates: the flag
\* is unknown, the environment given is not one of the flag's, or the
\* segment given is not targeted and "all" is not targeted either
GateFails(r) ==
    \/ r.feature_name \notin DOMAIN feature_flags
    \/ LET flag == feature_flags[r.feature_name] IN
         \/ r.environment # None /\ r.environment \notin flag.environments
         \/ /\ r.user_segment # None
            /\ r.user_segment \notin flag.target_segments
            /\ "all" \notin flag.target_segments

BucketOfCall(r) ==
    IF r.user_id # None THEN Bucket(hash_seed, r.user_id) ELSE r.draw

\* C20: when the three gates pass, is_feature_enabled returns flag.enabled
\* if rollout_percentage is 100, and otherwise True exactly when the
\* caller's bucket, a value in 0..99, is below rollout_percentage; at
\* rollout_percentage 0 it returns False to every caller.
C20_RolloutDecision ==
    (ret.op = "is_feature_enabled" /\ ~GateFails(ret)) =>
        LET flag == feature_flags[ret.feature_name] IN
        /\ BucketOfCall(ret) \in 0 .. 99
        /\ ret.result = IF flag.rollout_percentage = 100 THEN flag.enabled
                        ELSE BucketOfCall(ret) < flag.rollout_percentage
        /\ flag.rollout_percentage = 0 => ~ret.result

----------------------------------------------------------------------------
(* Readers next to an update *)

\* An update_feature_flag coroutine has been created and has not returned
UpdateInFlight == update_call.pc = "called"

\* C21: an is_feature_enabled evaluation that overlaps an
\* update_feature_flag call changing several fields of one flag reads
\* either the flag table of before the update or the table with every
\* field of the update applied, never a mix, and it can always run: it
\* does not wait for the update.
C21_ReadersSeeOldOrNew ==
    UpdateInFlight =>
        /\ \/ feature_flags = update_call.before
           \/ feature_flags =
                 update_feature_flag(update_call.before,
                                     update_call.feature_name,
                                     update_call.kwargs)
        /\ ENABLED Evaluate

\* An evaluation of a flag answered while an update of two of its fields
\* is in flight
C21_Witness ==
    /\ UpdateInFlight
    /\ update_call.feature_name = "ai_inference_v2"
    /\ update_call.kwargs = [enabled |-> TRUE, rollout_percentage |-> 0]
    /\ ret.op = "is_feature_enabled"
    /\ ret.feature_name = "ai_inference_v2"
    /\ ret.user_id = "u1" /\ ret.result

----------------------------------------------------------------------------
(* Progress of the rolling and the immediate executor *)

UpdatePcs == {"update_rolling", "update_immediate"}
ValidatePcs == {"validate_rolling", "validate_immediate"}

\* Coroutine t runs a rolling or immediate plan of at least one service
\* and no update or validation has failed under it
HealthyServiceRun(t) ==
    /\ run[t].plan # 0
    /\ plans[run[t].plan].strategy \in {"rolling_update", "immediate"}
    /\ plans[run[t].plan].services >= 1
    /\ ~run[t].fault

\* 20 + 60 k / n, in tenths
AfterServices(k, n) == Pct(20) + k * (Pct(60) \div n)

\* C22 as stated: in a rolling or immediate deployment of n >= 1 services
\* in which every update and the final validation succeed, the plan's
\* progress is 20 before the first update, 20 + 60 k / n after the k-th
\* service, and 100 after the final validation, with no other value in
\* between.
C22_ProgressSequence ==
    \A t \in DOMAIN run :
        HealthyServiceRun(t) =>
            LET plan == plans[run[t].plan] IN
            /\ run[t].pc \in UpdatePcs =>
                   plan.progress_percentage = AfterServices(run[t].i, plan.services)
            /\ run[t].pc \in ValidatePcs =>
                   plan.progress_percentage = AfterServices(plan.services, plan.services)
            /\ run[t].pc = "done" => plan.progress_percentage = Pct(100)

\* C22 amended: whenever the plan can be observed its progress is 20 before
\* the first update, 20 + 60 k / n after the k-th of n services for k < n,
\* 90 from the last update until the final validation has returned, and
\* 100 after it.
C22_ProgressSequenceThrough90 ==
    \A t \in DOMAIN run :
        HealthyServiceRun(t) =>
            LET plan == plans[run[t].plan] IN
            /\ run[t].pc \in UpdatePcs =>
                   /\ run[t].i < plan.services
                   /\ plan.progress_percentage = AfterServices(run[t].i, plan.services)
            /\ run[t].pc \in ValidatePcs =>
                   /\ run[t].i = plan.services
                   /\ plan.progress_percentage = Pct(90)
            /\ run[t].pc = "done" =>
                   /\ plan.status = "COMPLETED"
                   /\ plan.progress_percentage = Pct(100)

\* A rolling deployment of three services, all updated, waiting for its
\* final validation
C22_Witness ==
    \E t \in DOMAIN run :
        /\ HealthyServiceRun(t)
        /\ plans[run[t].plan].strategy = "rolling_update"
        /\ plans[run[t].plan].services = 3
        /\ run[t].pc = "validate_rolling" /\ run[t].i = 3
        /\ plans[run[t].plan].progress_percentage = Pct(90)

----------------------------------------------------------------------------
(* The registry as other tasks see it *)

\* The plan objects held in active_deployments
ActivePlans == {active_deployments[id] : id \in DOMAIN active_deployments}

\* The plan objects held in deployment_history
ArchivedPlans == {deployment_history[k] : k \in DOMAIN deployment_history}

\* C23: at every point where another task can observe the registry, each
\* plan in active_deployments has status PENDING or IN_PROGRESS; a plan
\* whose status is COMPLETED, FAILED or ROLLED_BACK is in
\* deployment_history and not in active_deployments.
C23_ActivePlansNotTerminal ==
    Scheduled("caller") =>
        /\ \A p \in ActivePlans : plans[p].status \in {"PENDING", "IN_PROGRESS"}
        /\ \A p \in DOMAIN plans :
               plans[p].status \in Terminal =>
                   p \in ArchivedPlans /\ p \notin ActivePlans

----------------------------------------------------------------------------
(* Executions of one plan *)

\* Coroutine t has started a plan's steps and has not returned
InFlight(t) == run[t].plan # 0 /\ run[t].pc # "done"

\* Coroutine t enters execute_deployment and starts a plan's steps
StartsPlan(t) == run[t].pc = "idle" /\ run'[t].pc # "idle" /\ run'[t].plan # 0

\* C24: at most one execution of a given plan is in flight at any time:
\* execute_deployment starts a plan's steps only from status PENDING, so
\* two overlapping calls for the same plan_id never both run its steps.
C24_SingleExecutionPerPlan ==
    [][/\ \A t \in DOMAIN run :
              StartsPlan(t) => plans[run'[t].plan].status = "PENDING"
       /\ \A t, u \in DOMAIN run :
              (t # u /\ InFlight(t)' /\ InFlight(u)') =>
                  run'[t].plan # run'[u].plan]_vars

----------------------------------------------------------------------------
(* Plans with different ids *)

\* Coroutine t makes this step
Steps(t) == run'[t] # run[t]

\* C25: under any interleaving of concurrent executions, executing one plan
\* never changes the status, progress_percentage or error_message of a plan
\* with a different plan_id and never removes a plan with a different
\* plan_id from active_deployments.
C25_OtherPlansUntouched ==
    [][\A t \in DOMAIN run :
          Steps(t) =>
              /\ \A q \in DOMAIN plans :
                     plans[q].plan_id # run'[t].plan_id =>
                         /\ plans'[q].status = plans[q].status
                         /\ plans'[q].progress_percentage =
                                plans[q].progress_percentage
                         /\ plans'[q].error_message = plans[q].error_message
              /\ \A id \in DOMAIN active_deployments :
                     id # run'[t].plan_id =>
                         /\ id \in DOMAIN active_deployments'
                         /\ active_deployments'[id] = active_deployments[id]]_vars

\* One execution has archived its plan while the execution of the other
\* plan is suspended in the middle of its steps, its plan still active
C25_Witness ==
    \E t, u \in DOMAIN run :
        /\ run[t].pc = "done" /\ run[t].plan = 1
        /\ plans[1].status = "ROLLED_BACK"
        /\ run[u].plan = 2 /\ run[u].pc = "validation_sleep"
        /\ plans[2].status = "IN_PROGRESS"
        /\ plans[2].progress_percentage = Pct(50)
        /\ DOMAIN active_deployments = {plans[2].plan_id}

----------------------------------------------------------------------------
(* Order of the strategies' steps *)

\* Coroutine t has started _promote_canary_to_stable
PromotionStarted(t) == run[t].pc = "promote" \/ run[t].promoted

\* C26: in a canary run the promotion of the canary to stable happens only
\* after the routed traffic has reached 100 and every metrics validation
\* of the run returned true; after a failed validation or a raised error
\* no promotion happens.
C26_PromotionAfterFullRamp ==
    /\ [](\A t \in DOMAIN run :
             PromotionStarted(t) =>
                 /\ run[t].routed >= 100
                 /\ ~run[t].valfail
                 /\ ~run[t].fault)
    /\ [][\A t \in DOMAIN run :
             (run[t].valfail \/ run[t].fault) =>
                 /\ run'[t].pc # "promote"
                 /\ run'[t].promoted = run[t].promoted]_vars

\* A canary promoted after five validated cycles took its traffic to 100
C26_Witness ==
    \E t \in DOMAIN run :
        /\ run[t].promoted /\ run[t].routed = 100 /\ run[t].cycles = 5
        /\ ~run[t].valfail
        /\ plans[run[t].plan].status = "COMPLETED"

\* Coroutine t goes on to the awaited call pc in this step
Calls(t, pc) == run[t].pc # pc /\ run'[t].pc = pc

\* C27: in a blue-green run the traffic is switched to green only after
\* green was deployed, the validation wait elapsed and the green validation
\* returned true, and the blue environment is cleaned up only after the
\* switch; when the validation fails or a step raises, neither a later
\* switch nor a later cleanup happens.
C27_BlueGreenOrder ==
    [][\A t \in DOMAIN run :
          /\ Calls(t, "validation_sleep") =>
                 run[t].pc = "deploy_green" /\ ~run'[t].fault
          /\ Calls(t, "validate_green") => run[t].pc = "validation_sleep"
          /\ Calls(t, "approval_sleep") =>
                 run[t].pc = "validate_green" /\ ~run'[t].fault
          /\ Calls(t, "switch_green") =>
                 /\ run[t].pc \in {"validate_green", "approval_sleep"}
                 /\ ~run'[t].fault
          /\ Calls(t, "cleanup_blue") =>
                 run[t].pc = "switch_green" /\ ~run'[t].fault
          /\ run[t].fault =>
                 ~Calls(t, "switch_green") /\ ~Calls(t, "cleanup_blue")]_vars

\* A blue-green run that deployed, waited, validated, waited for the
\* approval, switched, cleaned up and completed
C27_Witness ==
    \E t \in DOMAIN run :
        /\ run[t].pc = "done" /\ run[t].plan # 0 /\ ~run[t].fault
        /\ plans[run[t].plan].strategy = "blue_green"
        /\ plans[run[t].plan].status = "COMPLETED"
        /\ ~config.auto_promotion

----------------------------------------------------------------------------
(* Failures inside the rollback *)

\* The awaited calls of _execute_rollback before the notification
RollbackStepPcs == {"rb_route0", "rb_remove", "rb_blue_green", "rb_standard"}

\* A rollback call of coroutine t raises in this step: the run leaves the
\* call without going on to the next call of the rollback
RollbackStepRaises(t) ==
    /\ run[t].pc \in RollbackStepPcs
    /\ Steps(t)
    /\ run'[t].pc \notin {"rb_remove", "rb_notify"}

\* C28: if a rollback step raises, _execute_rollback does not re-raise:
\* execute_deployment still archives the plan with status ROLLED_BACK and
\* returns False.
C28_RollbackFailureSwallowed ==
    [][\A t \in DOMAIN run :
          RollbackStepRaises(t) =>
              /\ run'[t].pc = "done"
              /\ run'[t].result = "false"
              /\ plans'[run'[t].plan].status = "ROLLED_BACK"
              /\ deployment_history' = Append(deployment_history, run[t].plan)
              /\ run'[t].plan_id \notin DOMAIN active_deployments']_vars

\* A canary run whose preparation failed and whose rollback routed the
\* traffic to 0 and then failed to remove the canary
C28_Witness ==
    \E t \in DOMAIN run :
        /\ run[t].pc = "done" /\ run[t].rolled /\ run[t].result = "false"
        /\ plans[run[t].plan].strategy = "canary"
        /\ plans[run[t].plan].error_message = "git"
        /\ run[t].rb_route0 = 1 /\ run[t].rb_remove = 0
        /\ plans[run[t].plan].status = "ROLLED_BACK"
        /\ Count(deployment_history, run[t].plan) = 1

\* C29: every invocation of _execute_rollback dispatches a rollback
\* notification (the run reaches _send_rollback_notification before it
\* archives the plan), and a failing notification neither raises out of
\* the rollback nor changes the plan's status or prevents its archival.
C29_RollbackAlwaysNotifies ==
    [][\A t \in DOMAIN run :
          /\ (Archives(t) /\ run'[t].rolled) => run[t].pc = "rb_notify"
          /\ (run[t].pc = "rb_notify" /\ Steps(t)) =>
                 /\ run'[t].pc = "done"
                 /\ run'[t].result = "false"
                 /\ plans'[run'[t].plan].status = "ROLLED_BACK"
                 /\ deployment_history' =
                        Append(deployment_history, run[t].plan)
                 /\ run'[t].plan_id \notin DOMAIN active_deployments']_vars

----------------------------------------------------------------------------
(* Buckets across flags *)

\* Two flags with the same partial rollout, environments and segments
SameRollout(f, g) ==
    /\ f.rollout_percentage = g.rollout_percentage
    /\ f.rollout_percentage \in 1 .. 99
    /\ f.environments = g.environments
    /\ f.target_segments = g.target_segments

\* The identified users flag n is enabled for, in a process with hash seed
\* `seed`
EnabledUsers(seed, n) ==
    {u \in UserIds : is_feature_enabled(feature_flags, seed, n, u, None, None, 0)}

\* C30: the bucket of an identified user is computed from the flag name as
\* well as the user id: two flags with the same rollout_percentage below
\* 100, the same environments and the same target_segments are not forced
\* to enable exactly the same set of users.
C30_BucketSaltedWithFlagName ==
    \A n1, n2 \in FlagNames :
        (n1 # n2 /\ SameRollout(feature_flags[n1], feature_flags[n2])) =>
            \E seed \in HashSeeds : EnabledUsers(seed, n1) # EnabledUsers(seed, n2)

----------------------------------------------------------------------------
(* The flag table under updates *)

\* C31: after any sequence of update_feature_flag calls every flag's
\* rollout_percentage is an integer in 0..100: an update carrying a value
\* outside that range does not leave the flag with it.
C31_RolloutWithinRange ==
    \A n \in DOMAIN feature_flags :
        feature_flags[n].rollout_percentage \in 0 .. 100

----------------------------------------------------------------------------
(* deployment_history *)

\* List h is list g with entries appended
Extends(h, g) == Len(h) >= Len(g) /\ SubSeq(h, 1, Len(g)) = g

\* C32: deployment_history only grows: no operation removes, replaces or
\* reorders an entry, and every plan in it has a terminal status
\* (COMPLETED, FAILED or ROLLED_BACK) when it is appended and ever after.
C32_HistoryAppendOnlyTerminal ==
    /\ [][Extends(deployment_history', deployment_history)]_vars
    /\ [](\A k \in DOMAIN deployment_history :
             plans[deployment_history[k]].status \in Terminal)

\* C33: no created plan is ever lost: at every moment each plan that
\* create_deployment_plan has returned an id for is held in
\* active_deployments or in deployment_history.
C33_NoPlanLost ==
    \A p \in DOMAIN plans : p \in ActivePlans \cup ArchivedPlans

----------------------------------------------------------------------------
(* Rollback actions of one run *)

\* C34: within one execute_deployment run the strategy's rollback actions
\* (for canary: routing the traffic to 0 and deleting the canary
\* deployments) are performed at most once.
C34_RollbackActionsAtMostOnce ==
    \A t \in DOMAIN run : run[t].rb_route0 <= 1 /\ run[t].rb_remove <= 1

\* C35: when a plan's rollback_on_failure is false no rollback action
\* (traffic reset to 0, canary deletion, rollback notification) is issued
\* for it, whatever kind of failure ends the execution, and its final
\* status is FAILED.
C35_NoRollbackUnlessConfigured ==
    \A t \in DOMAIN run :
        (run[t].plan # 0 /\ ~plans[run[t].plan].rollback_on_failure) =>
            /\ run[t].rb_route0 = 0 /\ run[t].rb_remove = 0
            /\ run[t].pc \notin {"cx_route0", "cx_remove", "rb_notify"}
                                    \cup RollbackStepPcs
            /\ ~run[t].rolled
            /\ (run[t].pc = "done" /\ run[t].failed) =>
                   plans[run[t].plan].status = "FAILED"

\* C36: a canary plan reaches promotion only after at least one metrics
\* validation has been run and has passed, for every configured
\* initial_traffic_percentage (including 100 or more).
C36_PromotionNeedsValidation ==
    \A t \in DOMAIN run :
        PromotionStarted(t) => run[t].cycles >= 1 /\ ~run[t].valfail

----------------------------------------------------------------------------
(* Disabled flags *)

\* C37: is_feature_enabled never returns True for a flag whose enabled
\* field is False, for any rollout_percentage, user id, segment and
\* environment.
C37_DisabledFlagNeverEnabled ==
    (/\ ret.op = "is_feature_enabled"
     /\ ret.feature_name \in DOMAIN feature_flags
     /\ ~feature_flags[ret.feature_name].enabled) => ~ret.result

----------------------------------------------------------------------------
(* Termination *)

\* The ramp without the bookkeeping of `cycles` and without the bound on
\* it: the loop of lines 353-367 as the code runs it, for as long as its
\* condition holds
RampSleepUnbounded(t) ==
    /\ run[t].pc = "ramp_sleep"
    /\ Goto(t, run[t], plans, "ramp_validate")
    /\ Frame

RampRouteUnbounded(t) ==
    /\ run[t].pc = "ramp_route"
    /\ \E out \in ServiceLoopOutcomes(plans[run[t].plan].services) :
         IF out = "ok"
         THEN RampLoop(t, [run[t] EXCEPT !.routed = run[t].traffic_percentage],
                       [plans EXCEPT ![run[t].plan].progress_percentage =
                           RampProgress(run[t].traffic_percentage)])
         ELSE CanaryExcept(t, run[t], plans)
    /\ Frame

StepUnbounded(t) ==
    \/ run[t].pc \notin {"ramp_sleep", "ramp_route"} /\ Step(t)
    \/ RampSleepUnbounded(t)
    \/ RampRouteUnbounded(t)

\* The event loop resumes a coroutine whose awaited call has returned or
\* raised
Resume == \E t \in DOMAIN run : Scheduled(t) /\ StepUnbounded(t)

\* Configurations under which the traffic never goes below its initial
\* value: the default, a one-cycle ramp, and an increment of 0.  (With a
\* negative increment the traffic falls without bound.)
TerminationConfigs ==
    { [canary |-> c, auto_promotion |-> FALSE] :
        c \in {DefaultCanary, ShortCanary,
               [initial_traffic_percentage |-> 30, traffic_increment |-> 0]} }

InitTermination ==
    /\ RegistryInit
    /\ config \in TerminationConfigs
    /\ run = [t \in {"t1"} |-> IdleTask]
    /\ metrics = [pc |-> "unused"]

NextTermination ==
    \/ Create
    \/ Execute
    \/ Resume

\* Every collaborator call and every wait eventually returns or raises, and
\* the event loop then resumes the coroutine
SpecTermination ==
    InitTermination /\ [][NextTermination]_vars /\ WF_vars(Resume)

\* C38: every execute_deployment call eventually returns with its plan
\* archived, provided each collaborator call and each wait eventually
\* returns or raises; in particular the canary ramp reaches traffic 100
\* after finitely many cycles for every configured traffic_increment.
C38_ExecutionTerminates ==
    \A t \in {"t1"} :
        InFlight(t) ~> (/\ run[t].pc = "done"
                        /\ Count(deployment_history, run[t].plan) >= 1)

----------------------------------------------------------------------------
(* Error messages of archived plans *)

\* C39: every plan archived with status FAILED or ROLLED_BACK carries a
\* non-empty error_message, whichever way its execution failed: the
\* executor returned false, the executor swallowed an exception, or an
\* exception reached execute_deployment.
C39_FailedPlansCarryError ==
    \A p \in ArchivedPlans :
        plans[p].status \in {"FAILED", "ROLLED_BACK"} =>
            plans[p].error_message \notin {NoError, ""}

----------------------------------------------------------------------------
(* What update_feature_flag may change *)

\* The (flag, field) pairs whose value differs between two flag tables
ChangedFields(old, new) ==
    { <<n, f>> \in FlagNames \X DOMAIN FeatureFlag("", FALSE, 0, {}, {}, "") :
          new[n][f] # old[n][f] }

\* C40: update_feature_flag on an unknown flag name changes nothing and
\* never creates a flag; on a known flag it changes only the fields named in
\* the call, among enabled, rollout_percentage, target_segments and
\* environments, and leaves the flag's other fields and every other flag
\* unchanged; no other operation changes a flag, so the set of flag names
\* is constant.
C40_UpdateChangesOnlyNamedFields ==
    /\ [](DOMAIN feature_flags = FlagNames)
    /\ [][/\ DOMAIN feature_flags' = DOMAIN feature_flags
          /\ IF ret'.op = "update_feature_flag"
             THEN /\ ret'.feature_name \notin FlagNames =>
                         feature_flags' = feature_flags
                  /\ \A c \in ChangedFields(feature_flags, feature_flags') :
                         /\ c[1] = ret'.feature_name
                         /\ c[2] \in UpdatableFields \cap DOMAIN ret'.kwargs
             ELSE feature_flags' = feature_flags]_vars

\* A call on an unknown name has just returned, after earlier calls changed
\* the rollout of ai_inference_v2 and passed a key that is not a field the
\* function updates
C40_Witness ==
    /\ ret.op = "update_feature_flag"
    /\ ret.feature_name = "no_such_flag"
    /\ feature_flags["ai_inference_v2"].rollout_percentage = 50
    /\ feature_flags["enhanced_video_processing"].enabled
    /\ feature_flags["enhanced_video_processing"].conditions = "{}"

====
